---- MODULE Spec2Model ----
(***************************************************************************)
(* A model of sync_assignments.py (the assignment deadline digest): the    *)
(* identity of a task, the merge of freshly listed assignments into the    *)
(* persisted tasks.json, the urgency label, the digest buckets, and a run  *)
(* of main() against the file, the clock and the dashboard that marks      *)
(* tasks completed.                                                        *)
(*                                                                         *)
(* Text is a sequence of one-character strings, so that lower(), re.sub,   *)
(* isoformat() and fromisoformat() are computed character by character.    *)
(* Instants are whole seconds since 2025-01-01T00:00:00Z; an aware         *)
(* datetime is a record of its local fields and its UTC offset in seconds. *)
(* Comparing or subtracting two aware datetimes is done on their instants, *)
(* as Python does.  All datetimes of the model lie in 2025, the year ct()  *)
(* creates.                                                                *)
(***************************************************************************)
EXTENDS Integers, Sequences, FiniteSets, TLC

VARIABLES
    \* ---- merge_tasks applied as a function --------------------------------
    mpc,        \* "off" | "start" | "merged" | "again" | "raised"
    regS,       \* the registry handed to merge_tasks (existing)
    batchF,     \* the batch handed to merge_tasks (fresh)
    instT,      \* the instant now_ct() returns inside merge_tasks (line 186)
    once,       \* merge_tasks(regS, batchF) at instT
    twice,      \* merge_tasks(once, batchF) at the same instT
    \* ---- task_id applied to two assignments -------------------------------
    ipc,        \* "off" | "start" | "first" | "done"
    asgA, asgB, \* the two assignments
    idA, idB,   \* task_id of each
    \* ---- urgency_label and urgency_color applied to a due -----------------
    upc,        \* "off" | "start" | "labelled" | "done"
    udue,       \* the due handed to both (a Central datetime)
    unow,       \* the instant now_ct() returns inside them
    ulabel,     \* urgency_label(udue)
    ucolor,     \* urgency_color(udue)
    \* ---- runs of main() against tasks.json, the clock and the dashboard ---
    environ,    \* os.environ of the last process started: the names it holds
    clock,      \* the latest instant now_ct() has returned
    file,       \* tasks.json: [state |-> "missing" | "json" | "corrupt",
                \*   tasks |-> dict]
    pc,         \* "off" | "idle" | "aborted" | "started" | "loaded" | "merged"
                \*   | "saved" | "listed" | "built": where the process stands
    today,      \* main's today (line 319)
    fresh,      \* main's fresh (line 323)
    existing,   \* main's existing (line 324)
    mnow,       \* merge_tasks' now (line 186)
    merged,     \* main's merged (line 325)
    pending,    \* main's pending (lines 329-333)
    urgent_count, \* main's urgent_count (line 343)
    btoday,     \* build_html's today (line 252)
    soon,       \* build_html's soon (line 254)
    later,      \* build_html's later (line 255)
    urgent      \* build_html's urgent (line 256)

mergeVars   == <<mpc, regS, batchF, instT, once, twice>>
idVars      == <<ipc, asgA, asgB, idA, idB>>
urgencyVars == <<upc, udue, unow, ulabel, ucolor>>
localVars   == <<today, fresh, existing, mnow, merged, pending, urgent_count,
                 btoday, soon, later, urgent>>
runVars     == <<environ, clock, file, pc, localVars>>
vars        == <<mergeVars, idVars, urgencyVars, runVars>>

(***************************************************************************)
(* Characters and numbers as text                                          *)
(***************************************************************************)
Digits == <<"0", "1", "2", "3", "4", "5", "6", "7", "8", "9">>

UpperLetters ==
    <<"A","B","C","D","E","F","G","H","I","J","K","L","M",
      "N","O","P","Q","R","S","T","U","V","W","X","Y","Z">>

LowerLetters ==
    <<"a","b","c","d","e","f","g","h","i","j","k","l","m",
      "n","o","p","q","r","s","t","u","v","w","x","y","z">>

IsDigit(c) == \E i \in 1..10 : Digits[i] = c

DigitVal(c) == (CHOOSE i \in 1..10 : Digits[i] = c) - 1

Pad2(n) == <<Digits[((n \div 10) % 10) + 1], Digits[(n % 10) + 1]>>

Pad4(n) == Pad2(n \div 100) \o Pad2(n % 100)

Num2(s, i) == DigitVal(s[i]) * 10 + DigitVal(s[i + 1])

\* str.lower() on one character (the ASCII letters; the model's other
\* characters have no lower-case form)
lower(c) ==
    IF \E i \in 1..26 : UpperLetters[i] = c
    THEN LowerLetters[CHOOSE i \in 1..26 : UpperLetters[i] = c]
    ELSE c

\* the character class [a-z0-9] of the regular expression in task_id
InClassLowerAlnum(c) == IsDigit(c) \/ \E i \in 1..26 : LowerLetters[i] = c

(***************************************************************************)
(* Aware datetimes                                                         *)
(***************************************************************************)
DaysInMonth == <<31, 28, 31, 30, 31, 30, 31, 31, 30, 31, 30, 31>>

RECURSIVE DaysBefore(_)
DaysBefore(month) ==
    IF month <= 1 THEN 0 ELSE DaysBefore(month - 1) + DaysInMonth[month - 1]

\* the instant of an aware datetime of 2025
timestamp(dt) ==
    (DaysBefore(dt.month) + dt.day - 1) * 86400
        + dt.hour * 3600 + dt.minute * 60 + dt.second - dt.utcoffset

\* America/Chicago in 2025: CST (-06:00) until 2025-03-09 02:00 local,
\* CDT (-05:00) until 2025-11-02 02:00 local.  localize() has is_dst=False:
\* the hour that does not exist (March 9, 02:00-03:00) and the hour that
\* comes twice (November 2, 01:00-02:00) are taken as CST.
CentralOffsetLocal(month, day, hour) ==
    LET dayOfYear == DaysBefore(month) + day
        wall      == dayOfYear * 24 + hour
    IN  IF wall >= (DaysBefore(3) + 9) * 24 + 3 /\ wall < (DaysBefore(11) + 2) * 24 + 1
        THEN -18000 ELSE -21600

CentralOffsetAt(instant) ==
    IF instant >= (DaysBefore(3) + 8) * 86400 + 8 * 3600
       /\ instant < (DaysBefore(11) + 1) * 86400 + 7 * 3600
    THEN -18000 ELSE -21600

\* ct(month, day, hour, minute): CENTRAL_TZ.localize(datetime(2025, ...))
ct(month, day, hour, minute) ==
    [year |-> 2025, month |-> month, day |-> day, hour |-> hour,
     minute |-> minute, second |-> 0,
     utcoffset |-> CentralOffsetLocal(month, day, hour)]

\* the datetime of an instant of 2025 at a given UTC offset
fromtimestamp(instant, utcoffset) ==
    LET local == instant + utcoffset
        days  == local \div 86400
        secs  == local % 86400
        month == CHOOSE m \in 1..12 :
                    DaysBefore(m) <= days /\ days < DaysBefore(m) + DaysInMonth[m]
    IN  [year |-> 2025, month |-> month, day |-> days - DaysBefore(month) + 1,
         hour |-> secs \div 3600, minute |-> (secs % 3600) \div 60,
         second |-> secs % 60, utcoffset |-> utcoffset]

\* dt.astimezone(CENTRAL_TZ): the same instant, Central local fields
astimezone_central(dt) ==
    fromtimestamp(timestamp(dt), CentralOffsetAt(timestamp(dt)))

\* due.strftime('%Y%m%d'): the local calendar date, no time of day
strftime_Ymd(dt) == Pad4(dt.year) \o Pad2(dt.month) \o Pad2(dt.day)

\* the "+HH:MM" / "-HH:MM" suffix of isoformat()
OffsetText(utcoffset) ==
    LET mag == IF utcoffset < 0 THEN -utcoffset ELSE utcoffset
    IN  <<IF utcoffset < 0 THEN "-" ELSE "+">>
            \o Pad2(mag \div 3600) \o <<":">> \o Pad2((mag % 3600) \div 60)

\* a variant of isoformat that writes no UTC offset
isoformat_naive(dt) ==
    Pad4(dt.year) \o <<"-">> \o Pad2(dt.month) \o <<"-">> \o Pad2(dt.day)
        \o <<"T">> \o Pad2(dt.hour) \o <<":">> \o Pad2(dt.minute)
        \o <<":">> \o Pad2(dt.second)

\* dt.isoformat() of an aware datetime without microseconds
isoformat(dt) ==
    Pad4(dt.year) \o <<"-">> \o Pad2(dt.month) \o <<"-">> \o Pad2(dt.day)
        \o <<"T">> \o Pad2(dt.hour) \o <<":">> \o Pad2(dt.minute)
        \o <<":">> \o Pad2(dt.second) \o OffsetText(dt.utcoffset)

\* s.replace("Z", "+00:00")
RECURSIVE ReplaceZ(_)
ReplaceZ(s) ==
    IF s = <<>> THEN <<>>
    ELSE (IF Head(s) = "Z" THEN <<"+","0","0",":","0","0">> ELSE <<Head(s)>>)
            \o ReplaceZ(Tail(s))

\* the strings datetime.fromisoformat accepts, in the full form isoformat()
\* writes: YYYY-MM-DDTHH:MM:SS+HH:MM with a date of 2025
IsIsoFormat(s) ==
    /\ Len(s) = 25
    /\ \A i \in {1,2,3,4,6,7,9,10,12,13,15,16,18,19,21,22,24,25} : IsDigit(s[i])
    /\ s[5] = "-" /\ s[8] = "-" /\ s[14] = ":" /\ s[17] = ":" /\ s[23] = ":"
    /\ s[20] \in {"+", "-"}
    /\ Num2(s, 1) * 100 + Num2(s, 3) = 2025
    /\ Num2(s, 6) \in 1..12
    /\ Num2(s, 9) \in 1..DaysInMonth[Num2(s, 6)]
    /\ Num2(s, 12) \in 0..23 /\ Num2(s, 15) \in 0..59 /\ Num2(s, 18) \in 0..59
    /\ Num2(s, 21) \in 0..23 /\ Num2(s, 24) \in 0..59

fromisoformat(s) ==
    [year |-> Num2(s, 1) * 100 + Num2(s, 3), month |-> Num2(s, 6),
     day |-> Num2(s, 9), hour |-> Num2(s, 12), minute |-> Num2(s, 15),
     second |-> Num2(s, 18),
     utcoffset |-> (IF s[20] = "-" THEN -1 ELSE 1)
                      * (Num2(s, 21) * 3600 + Num2(s, 24) * 60)]

\* parse_iso(s): None for an empty string, ValueError when fromisoformat
\* rejects the text, else the datetime converted to Central time
parse_iso(s) ==
    IF s = <<>> THEN [kind |-> "None"]
    ELSE IF ~IsIsoFormat(ReplaceZ(s)) THEN [kind |-> "ValueError"]
    ELSE [kind |-> "datetime",
          value |-> astimezone_central(fromisoformat(ReplaceZ(s)))]

(***************************************************************************)
(* task_id                                                                 *)
(***************************************************************************)
\* re.sub(r"[^a-z0-9]", "_", title.lower())
safe_title(title) ==
    [i \in 1..Len(title) |->
        IF InClassLowerAlnum(lower(title[i])) THEN lower(title[i]) ELSE "_"]

\* a variant of id_date that also prints the hour and the minute
id_date_and_time(due) == strftime_Ymd(due) \o Pad2(due.hour) \o Pad2(due.minute)

\* the date part of the id: due.strftime('%Y%m%d')
id_date(due) == strftime_Ymd(due)

task_id(title, due) == safe_title(title) \o <<"_", "_">> \o id_date(due)

make_assignment(title, course, due, source, url) ==
    [title |-> title, course |-> course, due |-> due, source |-> source,
     url |-> url]

(***************************************************************************)
(* The registry: a Python dict, kept in insertion order                    *)
(***************************************************************************)
\* A dict is the sequence of its items [key, val] in insertion order.
HasKey(d, k) == \E i \in 1..Len(d) : d[i].key = k

GetItem(d, k) == d[CHOOSE i \in 1..Len(d) : d[i].key = k].val

KeyList(d) == [i \in 1..Len(d) |-> d[i].key]

KeySet(d) == {d[i].key : i \in 1..Len(d)}

SelectSeqKeyNot(d, k) == SelectSeq(d, LAMBDA item : item.key # k)

\* del d[k]
DelItem(d, k) == SelectSeqKeyNot(d, k)

\* d1 == d2 in Python: the same keys with the same values, in any order
DictEq(d1, d2) ==
    /\ KeySet(d1) = KeySet(d2)
    /\ \A k \in KeySet(d1) : GetItem(d1, k) = GetItem(d2, k)

(***************************************************************************)
(* merge_tasks                                                             *)
(***************************************************************************)
\* a variant of new_record that stores the record as completed
new_record_completed(tid, a) ==
    [id |-> tid, title |-> a.title, course |-> a.course,
     due |-> isoformat(a.due), source |-> a.source, url |-> a.url,
     completed |-> TRUE]

\* the record merge_tasks stores for an assignment seen for the first time
new_record(tid, a) ==
    [id |-> tid, title |-> a.title, course |-> a.course,
     due |-> isoformat(a.due), source |-> a.source, url |-> a.url,
     completed |-> FALSE]

\* a variant of add_fresh that writes a fresh record over a present one
add_fresh_overwrites(upd, a) ==
    LET tid == task_id(a.title, a.due)
    IN  IF HasKey(upd, tid)
        THEN [i \in 1..Len(upd) |->
                IF upd[i].key = tid
                THEN [key |-> tid, val |-> new_record(tid, a)] ELSE upd[i]]
        ELSE Append(upd, [key |-> tid, val |-> new_record(tid, a)])

\* one pass of the first loop's body: an id already present is left as it is
add_fresh(upd, a) ==
    LET tid == task_id(a.title, a.due)
    IN  IF HasKey(upd, tid) THEN upd
        ELSE Append(upd, [key |-> tid, val |-> new_record(tid, a)])

RECURSIVE add_all(_, _)
add_all(upd, batch) ==
    IF batch = <<>> THEN upd
    ELSE add_all(add_fresh(upd, Head(batch)), Tail(batch))

fresh_ids(batch) == {task_id(batch[i].title, batch[i].due) : i \in 1..Len(batch)}

\* a variant of is_stale that also takes a due equal to now for past
is_stale_or_due_now(due, now) ==
    due.kind = "datetime" /\ timestamp(due.value) <= now

\* the test of line 201, on what parse_iso returned
is_stale(due, now) == due.kind = "datetime" /\ timestamp(due.value) < now

\* a variant of prune that leaves the loop after its first deletion
RECURSIVE prune_stops_after_delete(_, _, _, _)
prune_stops_after_delete(keys, upd, ids, now) ==
    IF keys = <<>> THEN [raised |-> FALSE, value |-> upd]
    ELSE LET tid == Head(keys)
             due == parse_iso(GetItem(upd, tid).due)
         IN  IF tid \in ids THEN prune_stops_after_delete(Tail(keys), upd, ids, now)
             ELSE IF due.kind = "ValueError"
                  THEN [raised |-> TRUE, value |-> <<>>]
             ELSE IF is_stale(due, now)
                  THEN [raised |-> FALSE, value |-> DelItem(upd, tid)]
             ELSE prune_stops_after_delete(Tail(keys), upd, ids, now)

\* the second loop over list(updated.keys()); a ValueError of parse_iso
\* leaves merge_tasks without a result
RECURSIVE prune(_, _, _, _)
prune(keys, upd, ids, now) ==
    IF keys = <<>> THEN [raised |-> FALSE, value |-> upd]
    ELSE LET tid == Head(keys)
             due == parse_iso(GetItem(upd, tid).due)
         IN  IF tid \in ids THEN prune(Tail(keys), upd, ids, now)
             ELSE IF due.kind = "ValueError"
                  THEN [raised |-> TRUE, value |-> <<>>]
             ELSE IF is_stale(due, now)
                  THEN prune(Tail(keys), DelItem(upd, tid), ids, now)
             ELSE prune(Tail(keys), upd, ids, now)

\* merge_tasks(existing, fresh) with now_ct() returning now
merge_tasks(reg, batch, now) ==
    LET upd == add_all(reg, batch)
    IN  prune(KeyList(upd), upd, fresh_ids(batch), now)

(***************************************************************************)
(* Inputs of the checks: titles, due dates, batches and registries         *)
(***************************************************************************)
MaxBatch == 2   \* assignments in a batch
MaxReg   == 2   \* records in a registry handed to merge_tasks

\* "HW 5" and "hw-5" share a task id; "HW 6" differs in a digit
TitleHW5   == <<"H", "W", " ", "5">>
TitleHw5b  == <<"h", "w", "-", "5">>
TitleHW6   == <<"H", "W", " ", "6">>

UrlCanvas == "https://canvas.illinois.edu"
UrlCourse == "https://canvas.illinois.edu/courses/128"

\* the assignments of the model, in a fixed order:
\*   1  HW 5, March 1, 23:59
\*   2  the same title on the same date at 08:00 (the id of 1)
\*   3  the same date under another spelling, course and url (the id of 1)
\*   4  HW 5 a day later (another id)
\*   5  HW 6 on March 1 (another id)
Assignments ==
    <<make_assignment(TitleHW5, "BioE 210", ct(3, 1, 23, 59), "Canvas", UrlCanvas),
      make_assignment(TitleHW5, "BioE 210", ct(3, 1, 8, 0), "Canvas", UrlCanvas),
      make_assignment(TitleHw5b, "CS 128", ct(3, 1, 23, 59), "Canvas", UrlCourse),
      make_assignment(TitleHW5, "BioE 210", ct(3, 2, 23, 59), "Canvas", UrlCanvas),
      make_assignment(TitleHW6, "BioE 210", ct(3, 1, 23, 59), "Canvas", UrlCanvas)>>

AssignmentSet == {Assignments[n] : n \in 1..Len(Assignments)}

Batches == UNION {[1..n -> AssignmentSet] : n \in 0..MaxBatch}

\* the records a registry can hold for an assignment: as merge_tasks wrote
\* them, with the flag the dashboard may have set
StoredItems ==
    [n \in 1..(2 * Len(Assignments)) |->
        LET a   == Assignments[((n - 1) \div 2) + 1]
            tid == task_id(a.title, a.due)
        IN  [key |-> tid,
             val |-> [new_record(tid, a) EXCEPT !.completed = (n % 2 = 0)]]]

\* the dicts made of the items of a list at increasing positions, with
\* distinct keys and at most max items
RECURSIVE DictsFrom(_, _, _)
DictsFrom(items, from, max) ==
    IF max = 0 \/ from > Len(items) THEN {<<>>}
    ELSE DictsFrom(items, from + 1, max)
         \cup {<<items[from]>> \o d :
                 d \in {e \in DictsFrom(items, from + 1, max - 1) :
                            ~HasKey(e, items[from].key)}}

Registries == DictsFrom(StoredItems, 1, MaxReg)

\* the instants merge_tasks runs at: before every due but one, the very
\* instant of the March 1 23:59 due, a minute later, and weeks after every
\* due
Instants ==
    {timestamp(ct(3, 1, 12, 0)), timestamp(ct(3, 1, 23, 59)),
     timestamp(ct(3, 2, 0, 0)), timestamp(ct(3, 20, 12, 0))}

(***************************************************************************)
(* urgency_color and urgency_label                                         *)
(***************************************************************************)
\* int(x / d) for d > 0: Python's int() drops the fraction, toward zero
IntOfQuotient(x, d) == IF x >= 0 THEN x \div d ELSE -((-x) \div d)

\* urgency_color(due) with now_ct() returning now: h is the exact quotient
\* seconds / 3600, so h < 24 is seconds < 24 * 3600
urgency_color(due, now) ==
    LET seconds == timestamp(due) - now
    IN  IF seconds < 24 * 3600 THEN "#e53e3e"
        ELSE IF seconds < 72 * 3600 THEN "#dd6b20"
        ELSE IF seconds < 168 * 3600 THEN "#d69e2e"
        ELSE "#38a169"

\* urgency_label(due) with now_ct() returning now; a label is its sign, its
\* number and its words
urgency_label(due, now) ==
    LET h == IntOfQuotient(timestamp(due) - now, 3600)
        d == h \div 24
    IN  IF h < 24 THEN <<"warning", h, "h left">>
        ELSE IF d = 1 THEN <<"red", "Tomorrow">>
        ELSE IF d <= 3 THEN <<"orange", d, "days">>
        ELSE IF d <= 7 THEN <<"yellow", d, "days">>
        ELSE <<"green", d, "days">>

(***************************************************************************)
(* The three function-level specifications.  Each leaves the variables of  *)
(* the others at rest.                                                     *)
(***************************************************************************)
MergeOff ==
    /\ mpc = "off" /\ regS = <<>> /\ batchF = <<>> /\ instT = 0
    /\ once = <<>> /\ twice = <<>>

IdOff ==
    /\ ipc = "off" /\ asgA = <<>> /\ asgB = <<>> /\ idA = <<>> /\ idB = <<>>

UrgencyOff ==
    /\ upc = "off" /\ udue = <<>> /\ unow = 0 /\ ulabel = <<>> /\ ucolor = ""

NoLocals ==
    /\ today = 0 /\ fresh = <<>> /\ existing = <<>> /\ mnow = 0
    /\ merged = <<>> /\ pending = <<>> /\ urgent_count = 0 /\ btoday = 0
    /\ soon = <<>> /\ later = <<>> /\ urgent = <<>>

RunOff ==
    /\ pc = "off" /\ clock = 0 /\ file = [state |-> "missing", tasks |-> <<>>]
    /\ environ = {}
    /\ NoLocals

\* ---- merge_tasks applied once, then again to its own result --------------
InitMerge ==
    /\ mpc = "start"
    /\ regS \in Registries
    /\ batchF \in Batches
    /\ instT \in Instants
    /\ once = <<>>
    /\ twice = <<>>
    /\ IdOff /\ UrgencyOff /\ RunOff

\* a registry whose file was edited by hand: an HW 6 record whose due is no
\* timestamp ("TBD") or is empty, alone or after one well-formed record
BadDues == {<<"T", "B", "D">>, <<>>}

BadItems ==
    {[StoredItems[n] EXCEPT !.val.due = bad] :
        n \in {m \in 1..Len(StoredItems) : StoredItems[m].val.title = TitleHW6},
        bad \in BadDues}

EditedRegistries ==
    {d \o <<item>> :
        d \in {e \in DictsFrom(StoredItems, 1, MaxReg - 1) :
                  \A i \in 1..Len(e) : e[i].val.title # TitleHW6},
        item \in BadItems}

InitEdited ==
    /\ mpc = "start"
    /\ regS \in EditedRegistries
    /\ batchF \in Batches
    /\ instT \in Instants
    /\ once = <<>>
    /\ twice = <<>>
    /\ IdOff /\ UrgencyOff /\ RunOff

MergeOnce ==
    /\ mpc = "start"
    /\ LET r == merge_tasks(regS, batchF, instT)
       IN  /\ mpc' = IF r.raised THEN "raised" ELSE "merged"
           /\ once' = r.value
    /\ UNCHANGED <<regS, batchF, instT, twice, idVars, urgencyVars, runVars>>

MergeAgain ==
    /\ mpc = "merged"
    /\ LET r == merge_tasks(once, batchF, instT)
       IN  /\ mpc' = IF r.raised THEN "raised" ELSE "again"
           /\ twice' = r.value
    /\ UNCHANGED <<regS, batchF, instT, once, idVars, urgencyVars, runVars>>

NextMerge == MergeOnce \/ MergeAgain

SpecMerge == InitMerge /\ [][NextMerge]_vars

SpecEdited == InitEdited /\ [][NextMerge]_vars

\* ---- task_id applied to two assignments ----------------------------------
MaxTitleLen == 2   \* characters in a title

TitleChars == {"H", "h", "5", "6", " "}

TitlesUpTo(n) == UNION {[1..k -> TitleChars] : k \in 0..n}

\* the second assignment varies in title, due, course, source and url
OtherAssignments ==
    {make_assignment(t, m[1], d, m[2], m[3]) :
        t \in TitlesUpTo(MaxTitleLen),
        d \in {ct(3, 1, 23, 59), ct(3, 1, 8, 0), ct(3, 2, 23, 59)},
        m \in {<<"BioE 210", "Canvas", UrlCanvas>>,
               <<"CS 128", "PrairieLearn", UrlCourse>>}}

InitId ==
    /\ ipc = "start"
    /\ asgA \in {make_assignment(t, "BioE 210", ct(3, 1, 23, 59), "Canvas", UrlCanvas) :
                    t \in TitlesUpTo(MaxTitleLen)}
    /\ asgB \in OtherAssignments
    /\ idA = <<>>
    /\ idB = <<>>
    /\ MergeOff /\ UrgencyOff /\ RunOff

DeriveFirst ==
    /\ ipc = "start"
    /\ idA' = task_id(asgA.title, asgA.due)
    /\ ipc' = "first"
    /\ UNCHANGED <<asgA, asgB, idB, mergeVars, urgencyVars, runVars>>

DeriveSecond ==
    /\ ipc = "first"
    /\ idB' = task_id(asgB.title, asgB.due)
    /\ ipc' = "done"
    /\ UNCHANGED <<asgA, asgB, idA, mergeVars, urgencyVars, runVars>>

NextId == DeriveFirst \/ DeriveSecond

SpecId == InitId /\ [][NextId]_vars

\* ---- urgency_label and urgency_color applied to one due ------------------
MaxUrgencyHours == 200   \* the longest remaining time, in hours

\* remaining times: a minute or a second before each full hour, the full
\* hour, and a second after it
RemainingTimes ==
    {h * 3600 + e : h \in 0..MaxUrgencyHours, e \in {-60, -1, 0, 1}}

InitUrgency ==
    /\ upc = "start"
    /\ udue = parse_iso(isoformat(ct(3, 20, 23, 59))).value
    /\ unow \in {timestamp(ct(3, 20, 23, 59)) - r : r \in RemainingTimes}
    /\ ulabel = <<>>
    /\ ucolor = ""
    /\ MergeOff /\ IdOff /\ RunOff

Label ==
    /\ upc = "start"
    /\ ulabel' = urgency_label(udue, unow)
    /\ upc' = "labelled"
    /\ UNCHANGED <<udue, unow, ucolor, mergeVars, idVars, runVars>>

Color ==
    /\ upc = "labelled"
    /\ ucolor' = urgency_color(udue, unow)
    /\ upc' = "done"
    /\ UNCHANGED <<udue, unow, ulabel, mergeVars, idVars, runVars>>

NextUrgency == Label \/ Color

SpecUrgency == InitUrgency /\ [][NextUrgency]_vars

(***************************************************************************)
(* The digest: main's pending list and build_html's buckets                *)
(***************************************************************************)
\* the characters of a due text in code point order
CodeOrder ==
    <<"+", "-", "0", "1", "2", "3", "4", "5", "6", "7", "8", "9", ":",
      "B", "D", "T", "Z">>

CodePoint(c) == CHOOSE i \in 1..Len(CodeOrder) : CodeOrder[i] = c

\* a < b for two str values: by code point, a proper prefix first
RECURSIVE StrLess(_, _)
StrLess(a, b) ==
    IF b = <<>> THEN FALSE
    ELSE IF a = <<>> THEN TRUE
    ELSE IF Head(a) # Head(b) THEN CodePoint(Head(a)) < CodePoint(Head(b))
    ELSE StrLess(Tail(a), Tail(b))

\* inserting t after the items that are not greater than it
RECURSIVE insert_by_due(_, _)
insert_by_due(sorted, t) ==
    IF sorted = <<>> THEN <<t>>
    ELSE IF StrLess(t.due, Head(sorted).due) THEN <<t>> \o sorted
    ELSE <<Head(sorted)>> \o insert_by_due(Tail(sorted), t)

\* sorted(items, key=lambda x: x["due"]): stable, by the due text
RECURSIVE sorted_by_due(_)
sorted_by_due(items) ==
    IF items = <<>> THEN <<>>
    ELSE insert_by_due(sorted_by_due(SubSeq(items, 1, Len(items) - 1)),
                       items[Len(items)])

Values(d) == [i \in 1..Len(d) |-> d[i].val]

\* parse_iso(t["due"]) as an instant, for the dues the digest reads
due_instant(t) == timestamp(parse_iso(t.due).value)

\* line 331: the filter raises at a record that is not completed and whose
\* due is no timestamp (ValueError) or is empty (None > today, TypeError)
pending_raises(reg) ==
    \E i \in 1..Len(reg) :
        ~reg[i].val.completed /\ parse_iso(reg[i].val.due).kind # "datetime"

\* a variant of pending_of that does not look at the completed flag
pending_of_any(reg, now) ==
    sorted_by_due(SelectSeq(Values(reg), LAMBDA t : due_instant(t) > now))

\* lines 329-333: the records not completed and due after today, by due text
pending_of(reg, now) ==
    sorted_by_due(SelectSeq(Values(reg),
                            LAMBDA t : ~t.completed /\ due_instant(t) > now))

\* lines 343 and 256: the items due within 24 hours of now
within_24h(items, now) ==
    SelectSeq(items, LAMBDA a : due_instant(a) - now < 86400)

\* line 254, with week_end = now + timedelta(days=7)
soon_of(items, now) ==
    SelectSeq(items, LAMBDA a : due_instant(a) <= now + 7 * 86400)

\* line 255
later_of(items, now) ==
    SelectSeq(items, LAMBDA a : due_instant(a) > now + 7 * 86400)

(***************************************************************************)
(* Runs of main(), one after the other, with the dashboard marking tasks   *)
(* completed in tasks.json at any moment.  now_ct() returns the instant of *)
(* the call: never earlier than the last one returned.                     *)
(***************************************************************************)
\* the instants now_ct() can return: a second before and at seven days
\* before the March 1 23:59 due, a second before and at that due, and weeks
\* after every due
ClockSamples ==
    {timestamp(ct(3, 1, 23, 59)) - 7 * 86400 - 1,
     timestamp(ct(3, 1, 23, 59)) - 7 * 86400,
     timestamp(ct(3, 1, 23, 59)) - 1,
     timestamp(ct(3, 1, 23, 59)),
     timestamp(ct(3, 20, 12, 0))}

FirstInstant == CHOOSE t \in ClockSamples : \A u \in ClockSamples : t <= u

\* the lists all_assignments() can return, one per run
Schedules ==
    {<<>>,
     <<Assignments[1], Assignments[4]>>,
     <<Assignments[2], Assignments[5]>>,
     <<Assignments[5]>>}

\* lines 15-17: the names the module reads from os.environ when it is loaded
ConfigKeys == {"GMAIL_ADDRESS", "GMAIL_APP_PASSWORD", "TO_EMAIL"}

\* a variant of environ_raises: os.environ.get, which never raises
environ_get(env) == FALSE

\* os.environ[name] raises KeyError for a name that is not set
environ_raises(env) == \E name \in ConfigKeys : name \notin env

\* json.load raises JSONDecodeError when the file is no JSON text (line 177)
load_raises(f) == f.state = "corrupt"

\* load_tasks(): the file's dict, or {} when there is no file
load_tasks(f) == IF f.state = "json" THEN f.tasks ELSE <<>>

\* save_tasks(tasks): the file rewritten in full
save_tasks(tasks) == [state |-> "json", tasks |-> tasks]

InitRun ==
    /\ pc = "idle"
    /\ environ = ConfigKeys
    /\ clock = FirstInstant
    /\ file = [state |-> "missing", tasks |-> <<>>]
    /\ NoLocals
    /\ MergeOff /\ IdOff /\ UrgencyOff

\* the end of a run: its locals are gone
EndOfRun ==
    /\ pc' = "idle"
    /\ today' = 0 /\ fresh' = <<>> /\ existing' = <<>> /\ mnow' = 0
    /\ merged' = <<>> /\ pending' = <<>> /\ urgent_count' = 0 /\ btoday' = 0
    /\ soon' = <<>> /\ later' = <<>> /\ urgent' = <<>>

\* a process starts: lines 15-17 read the configuration, a KeyError ends
\* the process there; else main() begins, lines 319-321
Start ==
    /\ pc \in {"idle", "aborted"}
    /\ \E env \in SUBSET ConfigKeys :
          /\ environ' = env
          /\ IF environ_raises(env)
             THEN pc' = "aborted" /\ clock' = clock /\ today' = today
             ELSE /\ pc' = "started"
                  /\ \E t \in ClockSamples :
                        t >= clock /\ clock' = t /\ today' = t
    /\ UNCHANGED <<file, fresh, existing, mnow, merged, pending, urgent_count,
                   btoday, soon, later, urgent>>
    /\ UNCHANGED <<mergeVars, idVars, urgencyVars>>

\* lines 323-324: an exception of load_tasks ends the run
Load ==
    /\ pc = "started"
    /\ IF load_raises(file)
       THEN pc' = "idle" /\ today' = 0 /\ fresh' = <<>> /\ existing' = <<>>
       ELSE /\ fresh' \in Schedules
            /\ existing' = load_tasks(file)
            /\ pc' = "loaded"
            /\ today' = today
    /\ UNCHANGED <<clock, file, mnow, merged, pending, urgent_count,
                   btoday, soon, later, urgent>>
    /\ UNCHANGED <<mergeVars, idVars, urgencyVars, environ>>

\* line 325: merge_tasks reads the clock itself; an exception ends the run
Merge ==
    /\ pc = "loaded"
    /\ \E t \in ClockSamples :
          /\ t >= clock
          /\ clock' = t
          /\ mnow' = IF merge_tasks(existing, fresh, t).raised THEN 0 ELSE t
          /\ merged' = merge_tasks(existing, fresh, t).value
          /\ pc' = IF merge_tasks(existing, fresh, t).raised THEN "idle" ELSE "merged"
          /\ today' = IF merge_tasks(existing, fresh, t).raised THEN 0 ELSE today
          /\ fresh' = IF merge_tasks(existing, fresh, t).raised THEN <<>> ELSE fresh
          /\ existing' =
                IF merge_tasks(existing, fresh, t).raised THEN <<>> ELSE existing
    /\ UNCHANGED <<file, pending, urgent_count, btoday, soon, later, urgent>>
    /\ UNCHANGED <<mergeVars, idVars, urgencyVars, environ>>

\* line 326
Save ==
    /\ pc = "merged"
    /\ file' = save_tasks(merged)
    /\ pc' = "saved"
    /\ UNCHANGED <<clock, localVars>>
    /\ UNCHANGED <<mergeVars, idVars, urgencyVars, environ>>

\* lines 329-349: an exception of the filter ends the run, and with nothing
\* pending the run ends without an email
ListPending ==
    /\ pc = "saved"
    /\ IF pending_raises(merged) THEN EndOfRun
       ELSE IF pending_of(merged, today) = <<>> THEN EndOfRun
       ELSE /\ pending' = pending_of(merged, today)
            /\ urgent_count' = Len(within_24h(pending_of(merged, today), today))
            /\ pc' = "listed"
            /\ UNCHANGED <<today, fresh, existing, mnow, merged, btoday,
                           soon, later, urgent>>
    /\ UNCHANGED <<clock, file>>
    /\ UNCHANGED <<mergeVars, idVars, urgencyVars, environ>>

\* line 351, build_html lines 252-256: it reads the clock again
BuildHtml ==
    /\ pc = "listed"
    /\ \E t \in ClockSamples :
          /\ t >= clock
          /\ clock' = t
          /\ btoday' = t
          /\ soon' = soon_of(pending, t)
          /\ later' = later_of(pending, t)
          /\ urgent' = within_24h(pending, t)
    /\ pc' = "built"
    /\ UNCHANGED <<file, today, fresh, existing, mnow, merged, pending,
                   urgent_count>>
    /\ UNCHANGED <<mergeVars, idVars, urgencyVars, environ>>

\* line 352: the email leaves, or send_email raises; either way the run ends
SendEmail ==
    /\ pc = "built"
    /\ EndOfRun
    /\ UNCHANGED <<clock, file>>
    /\ UNCHANGED <<mergeVars, idVars, urgencyVars, environ>>

\* the dashboard marks a task of tasks.json completed
MarkCompleted ==
    /\ pc # "off"
    /\ file.state = "json"
    /\ \E i \in 1..Len(file.tasks) :
          /\ ~file.tasks[i].val.completed
          /\ file' = [file EXCEPT !.tasks[i].val.completed = TRUE]
    /\ UNCHANGED <<clock, pc, localVars>>
    /\ UNCHANGED <<mergeVars, idVars, urgencyVars, environ>>

RunStep ==
    Start \/ Load \/ Merge \/ Save \/ ListPending \/ BuildHtml \/ SendEmail

Next == RunStep \/ MarkCompleted

Spec == InitRun /\ [][Next]_vars

\* tasks.json after an edit by hand: the HW 5 record of March 1 as a run
\* stored it, then an HW 6 record whose due is no timestamp or is empty
EditedFiles ==
    {save_tasks(r) : r \in {e \in EditedRegistries :
                               Len(e) = 2 /\ e[1] = StoredItems[1]}}

InitEditedRun ==
    /\ pc = "idle"
    /\ environ = ConfigKeys
    /\ clock = FirstInstant
    /\ file \in EditedFiles
    /\ NoLocals
    /\ MergeOff /\ IdOff /\ UrgencyOff

\* runs of main() that start from an edited tasks.json
SpecEditedRuns == InitEditedRun /\ [][Next]_vars

\* a due text with the Z suffix, and one with the offset of daylight time,
\* as another writer of tasks.json leaves them: 23:00 and 23:30 Central on
\* March 1
DueUtcZ ==
    SubSeq(isoformat([year |-> 2025, month |-> 3, day |-> 2, hour |-> 5,
                      minute |-> 0, second |-> 0, utcoffset |-> 0]), 1, 19)
        \o <<"Z">>

DueDaylight ==
    isoformat([year |-> 2025, month |-> 3, day |-> 2, hour |-> 0,
               minute |-> 30, second |-> 0, utcoffset |-> -18000])

\* tasks.json with dues of other writers: the HW 5 record of March 1 with
\* its due in one of the three offsets, then the HW 6 record a run stored
OffsetFiles ==
    {save_tasks(<<[StoredItems[n] EXCEPT !.val.due = d], StoredItems[9]>>) :
        n \in {1, 2}, d \in {DueUtcZ, DueDaylight, StoredItems[1].val.due}}

\* tasks.json holding text that is no JSON
CorruptFile == [state |-> "corrupt", tasks |-> <<>>]

InitFoundFile ==
    /\ pc = "idle"
    /\ environ = ConfigKeys
    /\ clock = FirstInstant
    /\ file \in OffsetFiles \cup {CorruptFile}
    /\ NoLocals
    /\ MergeOff /\ IdOff /\ UrgencyOff

\* runs of main() that start from a tasks.json the program did not write
SpecFoundFile == InitFoundFile /\ [][Next]_vars

(***************************************************************************)
(* Claims about merge_tasks                                                *)
(***************************************************************************)
Returned == mpc \in {"merged", "again"}

BatchIds == fresh_ids(batchF)

\* the instant a stored due text stands for
DueInstant(rec) == timestamp(parse_iso(rec.due).value)

\* C1: merging the result of a merge again, with the same batch at the same
\* instant, returns a registry with the same ids and the same field values.
C1_Idempotent == mpc = "again" => DictEq(twice, once)

\* the first merge both added a record and pruned one before the second ran
C1_Witness ==
    /\ mpc = "again"
    /\ KeySet(once) \ KeySet(regS) # {}
    /\ KeySet(regS) \ KeySet(once) # {}

\* C2: a record that is completed and observed in the batch is in the result
\* and still completed, and no record that stays loses a true flag, after
\* one merge and after the next.
C2_FlagPreserved ==
    /\ Returned =>
          \A k \in KeySet(regS) :
              GetItem(regS, k).completed =>
                  /\ k \in BatchIds => HasKey(once, k)
                  /\ HasKey(once, k) => GetItem(once, k).completed
    /\ mpc = "again" =>
          \A k \in KeySet(once) :
              GetItem(once, k).completed =>
                  /\ k \in BatchIds => HasKey(twice, k)
                  /\ HasKey(twice, k) => GetItem(twice, k).completed

\* a completed record was observed again with other metadata, and kept
C2_Witness ==
    /\ mpc = "again"
    /\ \E k \in KeySet(regS), i \in 1..Len(batchF) :
          /\ GetItem(regS, k).completed
          /\ task_id(batchF[i].title, batchF[i].due) = k
          /\ isoformat(batchF[i].due) # GetItem(regS, k).due
          /\ HasKey(twice, k)

\* C3: a record of the existing registry is missing from the result exactly
\* when its stored due is strictly before now and no assignment of the
\* batch has its id.
C3_PrunedIffStaleUnobserved ==
    Returned =>
        \A k \in KeySet(regS) :
            ~HasKey(once, k)
                <=> (DueInstant(GetItem(regS, k)) < instT /\ k \notin BatchIds)

\* one record was pruned while an unobserved one due exactly now stayed
C3_Witness ==
    /\ mpc = "merged"
    /\ \E k1, k2 \in KeySet(regS) :
          /\ ~HasKey(once, k1)
          /\ k2 \notin BatchIds
          /\ DueInstant(GetItem(regS, k2)) = instT
          /\ HasKey(once, k2)

\* an observed record stayed although its due is long past
C3_WitnessObserved ==
    /\ mpc = "merged"
    /\ \E k \in KeySet(regS) \cap BatchIds :
          DueInstant(GetItem(regS, k)) < instT /\ HasKey(once, k)

\* C4: for an id of the batch that was already in the registry, the record
\* returned carries the title, course, due and url of an assignment of the
\* batch with that id, and the completed flag it had.
C4_MetadataRefreshed ==
    Returned =>
        \A k \in KeySet(regS) \cap BatchIds :
            /\ HasKey(once, k)
            /\ GetItem(once, k).completed = GetItem(regS, k).completed
            /\ \E i \in 1..Len(batchF) :
                  /\ task_id(batchF[i].title, batchF[i].due) = k
                  /\ GetItem(once, k).title = batchF[i].title
                  /\ GetItem(once, k).course = batchF[i].course
                  /\ GetItem(once, k).due = isoformat(batchF[i].due)
                  /\ GetItem(once, k).url = batchF[i].url

\* C8: when merge_tasks is handed a registry with a record outside the batch
\* whose due text does not parse, it returns, and returns that record as it
\* was.
C8_MalformedDueRetained ==
    mpc # "start" =>
        /\ mpc # "raised"
        /\ \A k \in KeySet(regS) \ BatchIds :
              parse_iso(GetItem(regS, k).due).kind # "datetime" =>
                  HasKey(once, k) /\ GetItem(once, k) = GetItem(regS, k)

\* what the code does keep: a record whose due is the empty text
C8_EmptyDueRetained ==
    /\ mpc = "merged"
    /\ \E k \in KeySet(regS) \ BatchIds :
          /\ GetItem(regS, k).due = <<>>
          /\ HasKey(once, k) /\ GetItem(once, k) = GetItem(regS, k)

\* C12: with one completed record A that is not yet due, a batch that holds
\* A's title with a due one day later and a new assignment B gives A's
\* record, completed, with the new due; a record for B, not completed; and
\* every record that was there.
C12_Rescheduled ==
    mpc = "merged" =>
        \A k \in KeySet(regS), i, j \in 1..Len(batchF) :
            LET a == GetItem(regS, k)
                o == batchF[i]
                b == batchF[j]
            IN  (/\ Len(regS) = 1 /\ a.completed /\ DueInstant(a) > instT
                 /\ o.title = a.title
                 /\ timestamp(o.due) = DueInstant(a) + 86400
                 /\ b.title # a.title)
                => /\ \E n \in 1..Len(once) :
                         /\ once[n].val.title = a.title
                         /\ once[n].val.completed
                         /\ once[n].val.due = isoformat(o.due)
                   /\ HasKey(once, task_id(b.title, b.due))
                   /\ ~GetItem(once, task_id(b.title, b.due)).completed
                   /\ Len(once) >= Len(regS)

\* what the code returns in that case: A's record as it was, a second record
\* for the new date, not completed, and the record for B
C12_TwoRecordsForA ==
    /\ mpc = "merged"
    /\ Len(regS) = 1 /\ Len(once) = 3
    /\ regS[1].val.completed /\ DueInstant(regS[1].val) > instT
    /\ once[1] = regS[1]
    /\ once[2].val.title = regS[1].val.title
    /\ DueInstant(once[2].val) = DueInstant(regS[1].val) + 86400
    /\ ~once[2].val.completed

\* C17: when two assignments of a batch share an id and differ otherwise,
\* the record returned for that id carries the title, course, due and url
\* of the one that comes later in the batch.
C17_LaterOneWins ==
    mpc = "merged" =>
        \A i, j \in 1..Len(batchF) :
            (/\ i < j
             /\ task_id(batchF[i].title, batchF[i].due)
                   = task_id(batchF[j].title, batchF[j].due)
             /\ batchF[i] # batchF[j])
            => LET r == GetItem(once, task_id(batchF[j].title, batchF[j].due))
               IN  /\ r.title = batchF[j].title
                   /\ r.course = batchF[j].course
                   /\ r.due = isoformat(batchF[j].due)
                   /\ r.url = batchF[j].url

(***************************************************************************)
(* Claims about task_id                                                    *)
(***************************************************************************)
SameDate(d1, d2) ==
    d1.year = d2.year /\ d1.month = d2.month /\ d1.day = d2.day

IsAlnum(c) ==
    \/ IsDigit(c)
    \/ \E i \in 1..26 : LowerLetters[i] = c \/ UpperLetters[i] = c

CommonPositions(t1, t2) ==
    1..(IF Len(t1) <= Len(t2) THEN Len(t1) ELSE Len(t2))

\* the two titles hold different characters at one place, one of them (at
\* least) a letter or a digit
DifferInAlnum(t1, t2) ==
    \E i \in CommonPositions(t1, t2) :
        t1[i] # t2[i] /\ (IsAlnum(t1[i]) \/ IsAlnum(t2[i]))

\* the same, with the letters compared without their case
DifferInAlnumBesidesCase(t1, t2) ==
    \E i \in CommonPositions(t1, t2) :
        lower(t1[i]) # lower(t2[i]) /\ (IsAlnum(t1[i]) \/ IsAlnum(t2[i]))

\* C5 as stated: equal title and equal due date give equal ids, whatever the
\* time of day, course, source and url; different due dates give different
\* ids; titles that differ in a letter or digit give different ids.
C5_IdentityAsStated ==
    ipc = "done" =>
        /\ (asgA.title = asgB.title /\ SameDate(asgA.due, asgB.due)) => idA = idB
        /\ ~SameDate(asgA.due, asgB.due) => idA # idB
        /\ DifferInAlnum(asgA.title, asgB.title) => idA # idB

\* C5 amended: as stated, except that titles must differ in a letter or
\* digit by more than the case of a letter to get different ids.
C5_Identity ==
    ipc = "done" =>
        /\ (asgA.title = asgB.title /\ SameDate(asgA.due, asgB.due)) => idA = idB
        /\ ~SameDate(asgA.due, asgB.due) => idA # idB
        /\ DifferInAlnumBesidesCase(asgA.title, asgB.title) => idA # idB

\* the same title on the same date at another time of day, under another
\* course, source and url, got the same id
C5_Witness ==
    /\ ipc = "done"
    /\ Len(asgA.title) = MaxTitleLen
    /\ asgA.title = asgB.title
    /\ SameDate(asgA.due, asgB.due)
    /\ asgA.due.hour # asgB.due.hour
    /\ asgA.course # asgB.course /\ asgA.url # asgB.url
    /\ asgA.source # asgB.source
    /\ idA = idB

(***************************************************************************)
(* Claims about urgency_label                                              *)
(***************************************************************************)
\* the tier a label stands for, by its sign
Tier(label) ==
    CASE label[1] = "warning" -> "urgent"
      [] label[1] = "red"     -> "tomorrow"
      [] label[1] = "orange"  -> "near"
      [] label[1] = "yellow"  -> "week"
      [] label[1] = "green"   -> "later"

Remaining == timestamp(udue) - unow

\* C6: 23h59m left is urgent, exactly 24h is tomorrow, exactly 7 days is
\* week, 7 days and 1 hour is later; anything under 24h is urgent and
\* anything beyond 7 days is later.
C6_UrgencyBoundaries ==
    upc \in {"labelled", "done"} =>
        /\ Remaining = 23 * 3600 + 59 * 60 => Tier(ulabel) = "urgent"
        /\ Remaining = 24 * 3600 => Tier(ulabel) = "tomorrow"
        /\ Remaining = 7 * 86400 => Tier(ulabel) = "week"
        /\ Remaining = 7 * 86400 + 3600 => Tier(ulabel) = "later"
        /\ Remaining < 24 * 3600 => Tier(ulabel) = "urgent"
        /\ Remaining > 7 * 86400 => Tier(ulabel) = "later"

\* the boundaries the code does keep: the first three of C6, and later from
\* 8 whole days on
C6_BoundariesKept ==
    upc \in {"labelled", "done"} =>
        /\ Remaining < 24 * 3600 <=> Tier(ulabel) = "urgent"
        /\ Remaining = 24 * 3600 => Tier(ulabel) = "tomorrow"
        /\ Remaining = 7 * 86400 => Tier(ulabel) = "week"
        /\ Remaining >= 8 * 86400 <=> Tier(ulabel) = "later"

\* C20: for one due and one now, the colour is red exactly with the
\* hours-left label, orange exactly with Tomorrow or the orange days label,
\* yellow exactly with the yellow days label, green exactly with the green
\* days label.
C20_ColourMatchesLabel ==
    upc = "done" =>
        /\ ucolor = "#e53e3e" <=> Tier(ulabel) = "urgent"
        /\ ucolor = "#dd6b20" <=> Tier(ulabel) \in {"tomorrow", "near"}
        /\ ucolor = "#d69e2e" <=> Tier(ulabel) = "week"
        /\ ucolor = "#38a169" <=> Tier(ulabel) = "later"

\* where the two do agree: under 48 hours, from 96 to under 168, from 192
C20_AgreeOutsideTheGaps ==
    (upc = "done" /\ (\/ Remaining < 72 * 3600
                      \/ (Remaining >= 96 * 3600 /\ Remaining < 168 * 3600)
                      \/ Remaining >= 192 * 3600))
        => C20_ColourMatchesLabel

(***************************************************************************)
(* Claims about the digest and about runs                                  *)
(***************************************************************************)
InList(items, t) == \E i \in 1..Len(items) : items[i].id = t.id

\* the partition of the records of reg at one instant now
PartitionedAt(reg, now) ==
    \A i \in 1..Len(reg) :
        LET t == reg[i].val
        IN  IF ~t.completed /\ due_instant(t) > now
            THEN /\ InList(soon, t) # InList(later, t)
                 /\ InList(soon, t) <=> due_instant(t) <= now + 7 * 86400
            ELSE ~InList(soon, t) /\ ~InList(later, t)

\* C7: at the run's now, every record not completed and due after now is in
\* exactly one of soon and later, in soon exactly when due <= now + 7 days,
\* and every other record is in neither.
C7_DigestPartition == pc = "built" => PartitionedAt(merged, today)

\* the same when build_html's clock reading equals main's
C7_PartitionAtOneReading ==
    (pc = "built" /\ btoday = today) => PartitionedAt(merged, today)

\* at one reading, a run filled both buckets, one record due exactly seven
\* days after now
C7_BothBuckets ==
    /\ pc = "built" /\ btoday = today
    /\ later # <<>>
    /\ \E i \in 1..Len(soon) : due_instant(soon[i]) = today + 7 * 86400

\* C9: whatever the dashboard writes and whenever, a record of tasks.json
\* that is completed and is still there after a step is still completed.
C9_FlagSurvivesWrites ==
    [][\A i \in 1..Len(file.tasks) :
          (file.tasks[i].val.completed /\ HasKey(file'.tasks, file.tasks[i].key))
              => GetItem(file'.tasks, file.tasks[i].key).completed]_vars

\* C11: the pending list is in the order of the due instants, whatever the
\* UTC offsets of the stored due texts.
C11_PendingByInstant ==
    pc \in {"listed", "built"} =>
        \A i, j \in 1..Len(pending) :
            i < j => due_instant(pending[i]) <= due_instant(pending[j])

\* C13: one run takes every decision at one instant: merge_tasks and
\* build_html use main's now, the two counts of records due within 24 hours
\* agree, and every record handed to the tables is still due.
C13_SingleInstant ==
    /\ pc \in {"merged", "saved", "listed", "built"} => mnow = today
    /\ pc = "built" =>
          /\ btoday = today
          /\ urgent_count = Len(urgent)
          /\ \A i \in 1..Len(pending) : due_instant(pending[i]) > btoday

\* the subject line counted no record due within 24 hours and the header of
\* the same digest counts one
C13_CountsDiffer ==
    pc = "built" /\ urgent_count = 0 /\ Len(urgent) = 1

\* C14: a run that finds tasks.json unreadable goes on with the empty
\* registry.
C14_CorruptIsEmptyStart ==
    [][(pc = "started" /\ file.state = "corrupt")
          => (pc' = "loaded" /\ existing' = <<>>)]_vars

\* C15: a process that misses a configuration name does not get into
\* main(): it saves nothing, sends nothing, and leaves tasks.json as it was.
C15_FailFast ==
    [][/\ environ' # ConfigKeys => pc' = "aborted"
       /\ (environ' # ConfigKeys /\ environ' # environ) => file' = file]_vars

\* a process without its recipient has ended in front of a registry that an
\* earlier run saved
C15_Witness ==
    /\ pc = "aborted"
    /\ environ = ConfigKeys \ {"TO_EMAIL"}
    /\ file.state = "json" /\ file.tasks # <<>>

\* a record of reg is not completed and due after now
SomePending(reg, now) ==
    \E i \in 1..Len(reg) :
        ~reg[i].val.completed /\ due_instant(reg[i].val) > now

\* C16: the email leaves only when a record of the merged registry is not
\* completed and due after now; with none the run ends after the save,
\* tasks.json holding the merged registry's records.
C16_NoEmailUnlessPending ==
    [][/\ (pc = "built" /\ pc' = "idle") => SomePending(merged, today)
       /\ (pc = "saved" /\ ~SomePending(merged, today) /\ pc' # pc)
             => /\ pc' = "idle"
                /\ file.state = "json"
                /\ KeySet(file.tasks) = KeySet(merged)]_vars

\* a run has saved a registry whose only record due after now is completed:
\* it is about to end without an email
C16_Witness ==
    /\ pc = "saved"
    /\ ~SomePending(merged, today)
    /\ \E i \in 1..Len(merged) :
          merged[i].val.completed /\ due_instant(merged[i].val) > today
    /\ KeySet(file.tasks) = KeySet(merged)

\* the ids a task can have in a run
AllIds == {task_id(Assignments[n].title, Assignments[n].due) :
              n \in 1..Len(Assignments)}

\* the step that ends a run of main(), by its return or by an exception
RunEnds == pc \notin {"off", "idle"} /\ pc' = "idle"

\* the now of merge_tasks in the run that ends: the reading of line 186
RunNow == IF pc = "loaded" THEN clock' ELSE mnow

\* the run that ends had loaded record k with a due that parses and is
\* before the run's now, and its batch lacks k
StaleUnobserved(k) ==
    /\ pc \in {"loaded", "saved", "built"}
    /\ HasKey(existing, k)
    /\ k \notin fresh_ids(fresh)
    /\ parse_iso(GetItem(existing, k).due).kind = "datetime"
    /\ due_instant(GetItem(existing, k)) < RunNow

\* when such a run ends, the record is not in tasks.json
RemovedByRun ==
    \A k \in AllIds :
        (RunEnds /\ StaleUnobserved(k)) => ~HasKey(file'.tasks, k)

\* an id comes into tasks.json only from the batch of the run that saves
ReappearsOnlyObserved ==
    \A k \in AllIds :
        (~HasKey(file.tasks, k) /\ HasKey(file'.tasks, k))
            => (pc = "merged" /\ k \in fresh_ids(fresh))

\* C10: a record with a parseable due that the batch of a run lacks is not
\* in tasks.json once a run whose now is after its due has ended, and it
\* comes back only when a batch holds it again.
C10_BoundedGrowth == [][RemovedByRun /\ ReappearsOnlyObserved]_vars

\* C18: a record merge_tasks creates is not completed and a record it keeps
\* has the flag it had; in tasks.json a flag goes from false to true only in
\* a step of the dashboard.
C18_NeverMarksCompleted ==
    [][/\ pc' = "merged" =>
             \A k \in KeySet(merged') :
                 IF HasKey(existing', k)
                 THEN GetItem(merged', k).completed
                         = GetItem(existing', k).completed
                 ELSE ~GetItem(merged', k).completed
       /\ \A k \in AllIds :
             (/\ HasKey(file.tasks, k) /\ ~GetItem(file.tasks, k).completed
              /\ HasKey(file'.tasks, k) /\ GetItem(file'.tasks, k).completed)
             => (pc' = pc /\ merged' = merged)]_vars

\* a run has saved a registry with a record it created and a completed
\* record it kept
C18_Witness ==
    /\ pc = "saved"
    /\ \E k \in KeySet(merged) : ~HasKey(existing, k)
    /\ \E k \in KeySet(merged) :
          HasKey(existing, k) /\ GetItem(merged, k).completed

\* C19: in tasks.json every key is the id field of its record, the id is
\* task_id of the record's title and parsed due, and every due parses to an
\* instant with a UTC offset.
C19_WellFormed ==
    \A i \in 1..Len(file.tasks) :
        LET r == file.tasks[i]
        IN  /\ r.key = r.val.id
            /\ parse_iso(r.val.due).kind = "datetime"
            /\ r.val.due[Len(r.val.due) - 5] \in {"+", "-"}
            /\ r.val.id = task_id(r.val.title, parse_iso(r.val.due).value)

\* tasks.json holds two records after runs and a write of the dashboard
C19_Witness ==
    /\ pc = "idle"
    /\ Len(file.tasks) = 2
    /\ \E i \in 1..2 : file.tasks[i].val.completed
    /\ file.tasks[1].val.due # file.tasks[2].val.due

====
